---- MODULE Spec2Model ----
(***************************************************************************)
(* Card states of the Rahjong rules engine (rahjong/src/cards.rs) and the  *)
(* operations that change them: draw, play (discard) and call (commit a    *)
(* meld).  Tiles, seats, river records and meld records follow             *)
(* card_type.rs, river_type.rs and case_type.rs.                           *)
(***************************************************************************)
EXTENDS Integers, Sequences, FiniteSets, TLC

VARIABLES card_mountain, hand, river, open, active_player, result

vars == <<card_mountain, hand, river, open, active_player, result>>

(***************************************************************************)
(* card_type.rs.  A tile is <<family, member>>: the family is the variant  *)
(* of CardType (with the two ZiType variants told apart), the member is    *)
(* the variant index of RankType, JianType or FengType, counted from 1.    *)
(***************************************************************************)
WanSuit == 1
TiaoSuit == 2
TongSuit == 3
JianSuit == 4
FengSuit == 5

RankType == 1..9
JianType == 1..3
FengType == 1..4

Wan(n) == <<WanSuit, n>>
Tiao(n) == <<TiaoSuit, n>>
Tong(n) == <<TongSuit, n>>
Jian(j) == <<JianSuit, j>>
Feng(f) == <<FengSuit, f>>

Bai == 1
Fa == 2
Zhong == 3

Dong == 1
Nan == 2
Xi == 3
Bei == 4

CardType ==
    ({WanSuit, TiaoSuit, TongSuit} \X RankType)
        \cup ({JianSuit} \X JianType) \cup ({FengSuit} \X FengType)

\* #[derive(PartialOrd, Ord)]: variant first, payload second.
CardLess(a, b) == a[1] < b[1] \/ (a[1] = b[1] /\ a[2] < b[2])

\* As RankNext, but Nine stays Nine.
RankNext_saturating(n) == IF n = 9 THEN 9 ELSE n + 1

RankNext(n) ==
    CASE n = 1 -> 2 [] n = 2 -> 3 [] n = 3 -> 4 [] n = 4 -> 5 [] n = 5 -> 6
      [] n = 6 -> 7 [] n = 7 -> 8 [] n = 8 -> 9 [] n = 9 -> 1

JianNext(j) == CASE j = Bai -> Fa [] j = Fa -> Zhong [] j = Zhong -> Bai

FengNext(f) == CASE f = Dong -> Nan [] f = Nan -> Xi [] f = Xi -> Bei [] f = Bei -> Dong

CardNext(c) ==
    CASE c[1] = WanSuit -> Wan(RankNext(c[2]))
      [] c[1] = TiaoSuit -> Tiao(RankNext(c[2]))
      [] c[1] = TongSuit -> Tong(RankNext(c[2]))
      [] c[1] = JianSuit -> Jian(JianNext(c[2]))
      [] c[1] = FengSuit -> Feng(FengNext(c[2]))

(***************************************************************************)
(* river_type.rs and case_type.rs.                                         *)
(***************************************************************************)
Normal(c) == [kind |-> "Normal", card |-> c]
Drawing(c) == [kind |-> "Drawing", card |-> c]

Ke(c) == [kind |-> "Ke", card |-> c]
Shun(c) == [kind |-> "Shun", card |-> c]
Gang(c) == [kind |-> "Gang", card |-> c]
AnGang(c) == [kind |-> "AnGang", card |-> c]

CaseKinds == {"Ke", "Shun", "Gang", "AnGang"}

(***************************************************************************)
(* Hand = BTreeMap<CardType, u8>: a function whose domain is the set of    *)
(* keys stored in the map.                                                 *)
(***************************************************************************)
EmptyHand == [c \in {} |-> 0]

\* hand.get(&card).copied().unwrap_or(0)
HandGet(h, c) == IF c \in DOMAIN h THEN h[c] ELSE 0

\* *hand.entry(card).or_default() += 1
HandAdd(h, c) ==
    [x \in (DOMAIN h) \cup {c} |-> IF x = c THEN HandGet(h, c) + 1 ELSE h[x]]

\* hand.remove(&card)
HandRemoveKey(h, c) == [x \in (DOMAIN h) \ {c} |-> h[x]]

\* As remove_from_hand, but the last copy leaves a zero count in the map.
remove_from_hand_keep_zero(h, c) ==
    IF c \notin DOMAIN h \/ h[c] = 0
    THEN [ok |-> FALSE, hand |-> h]
    ELSE [ok |-> TRUE, hand |-> [h EXCEPT ![c] = @ - 1]]

\* Some(1) => remove the entry; Some(0) | None => false; otherwise count - 1.
remove_from_hand(h, c) ==
    IF c \in DOMAIN h /\ h[c] = 1
    THEN [ok |-> TRUE, hand |-> HandRemoveKey(h, c)]
    ELSE IF c \notin DOMAIN h \/ h[c] = 0
    THEN [ok |-> FALSE, hand |-> h]
    ELSE [ok |-> TRUE, hand |-> [h EXCEPT ![c] = @ - 1]]

(***************************************************************************)
(* init, shuffle and deal.                                                 *)
(***************************************************************************)
AllCards ==
    <<Wan(1), Wan(2), Wan(3), Wan(4), Wan(5), Wan(6), Wan(7), Wan(8), Wan(9),
      Tiao(1), Tiao(2), Tiao(3), Tiao(4), Tiao(5), Tiao(6), Tiao(7), Tiao(8), Tiao(9),
      Tong(1), Tong(2), Tong(3), Tong(4), Tong(5), Tong(6), Tong(7), Tong(8), Tong(9),
      Jian(Bai), Jian(Fa), Jian(Zhong),
      Feng(Dong), Feng(Nan), Feng(Xi), Feng(Bei)>>

Copies == 4
HandSize == 13

\* The mountain before the shuffle: the 34 tiles, repeated 4 times.
init == [i \in 1..(Len(AllCards) * Copies) |-> AllCards[((i - 1) % Len(AllCards)) + 1]]

RECURSIVE Repeat(_, _)
Repeat(c, n) == IF n = 0 THEN <<>> ELSE <<c>> \o Repeat(c, n - 1)

CountIn(s, c) == Cardinality({i \in DOMAIN s : s[i] = c})

\* As deal, but the fold inserts 1 for a card instead of adding 1 to its count.
deal_insert(cards) ==
    LET n == Len(cards)
        dealt == SubSeq(cards, n - HandSize + 1, n)
    IN  [rest |-> SubSeq(cards, 1, n - HandSize),
         hand |-> [c \in {dealt[i] : i \in DOMAIN dealt} |-> 1]]

\* deal: split off the last 13 cards and fold them into a map of counts.
deal(cards) ==
    LET n == Len(cards)
        dealt == SubSeq(cards, n - HandSize + 1, n)
    IN  [rest |-> SubSeq(cards, 1, n - HandSize),
         hand |-> [c \in {dealt[i] : i \in DOMAIN dealt} |-> CountIn(dealt, c)]]

(***************************************************************************)
(* Shuffle outcomes explored.  A shuffle is any permutation of init; the   *)
(* ones below are the identity and an arrangement that deals the hands     *)
(* DongDeal .. BeiDeal and leaves the rest of the tiles, in tile order, as *)
(* the mountain.                                                           *)
(***************************************************************************)
DongDeal ==
    <<Wan(1), Wan(1), Wan(1), Wan(1), Wan(2), Wan(3), Wan(8), Wan(9),
      Tiao(1), Tiao(5), Tiao(9), Tong(5), Feng(Dong)>>
NanDeal ==
    <<Wan(2), Wan(2), Wan(2), Wan(3), Tiao(2), Tiao(3), Tiao(4), Tiao(6),
      Tiao(7), Tong(8), Jian(Bai), Jian(Bai), Jian(Bai)>>
XiDeal ==
    <<Jian(Bai), Jian(Fa), Jian(Zhong), Feng(Dong), Feng(Nan), Feng(Xi),
      Wan(5), Wan(6), Wan(7), Jian(Fa), Tong(1), Tong(2), Tong(3)>>
BeiDeal ==
    <<Wan(3), Wan(3), Wan(4), Wan(5), Tong(4), Tong(4), Tong(4), Tong(6),
      Tong(7), Jian(Fa), Jian(Fa), Jian(Zhong), Feng(Bei)>>

RECURSIVE RestInOrder(_, _)
RestInOrder(dealt, i) ==
    IF i > Len(AllCards) THEN <<>>
    ELSE Repeat(AllCards[i], Copies - CountIn(dealt, AllCards[i]))
            \o RestInOrder(dealt, i + 1)

ArrangedDeck ==
    LET dealt == BeiDeal \o XiDeal \o NanDeal \o DongDeal
    IN  RestInOrder(dealt, 1) \o dealt

ShuffleOutcomes == {init, ArrangedDeck}

\* Cards::new for one shuffle outcome.
new(shuffled) ==
    LET d1 == deal(shuffled)
        d2 == deal(d1.rest)
        d3 == deal(d2.rest)
        d4 == deal(d3.rest)
    IN  [card_mountain |-> d4.rest,
         hand |-> [s \in FengType |->
                     CASE s = Dong -> d1.hand [] s = Nan -> d2.hand
                       [] s = Xi -> d3.hand [] s = Bei -> d4.hand],
         river |-> [s \in FengType |-> <<>>],
         open |-> [s \in FengType |-> <<>>],
         active_player |-> Dong]

\* The Cards struct as one value.
self ==
    [card_mountain |-> card_mountain, hand |-> hand, river |-> river,
     open |-> open, active_player |-> active_player]

(***************************************************************************)
(* Cards::draw and Cards::play.                                            *)
(***************************************************************************)
\* Option<CardType> as a sequence of length 0 or 1.
None == <<>>
Some(c) == <<c>>

\* As draw, but taking the first card of the mountain.
draw_front(st) ==
    IF st.card_mountain = <<>>
    THEN [value |-> None, st |-> st]
    ELSE LET res == st.card_mountain[1]
         IN  [value |-> Some(res),
              st |-> [st EXCEPT !.card_mountain = Tail(st.card_mountain),
                                !.hand[st.active_player] = HandAdd(@, res)]]

\* As draw, but the emptiness test follows the pop: the last card is lost.
draw_drops_last(st) ==
    IF Len(st.card_mountain) <= 1
    THEN [value |-> None, st |-> [st EXCEPT !.card_mountain = <<>>]]
    ELSE LET n == Len(st.card_mountain)
             res == st.card_mountain[n]
         IN  [value |-> Some(res),
              st |-> [st EXCEPT !.card_mountain = SubSeq(st.card_mountain, 1, n - 1),
                                !.hand[st.active_player] = HandAdd(@, res)]]

draw(st) ==
    IF st.card_mountain = <<>>
    THEN [value |-> None, st |-> st]
    ELSE LET n == Len(st.card_mountain)
             res == st.card_mountain[n]
         IN  [value |-> Some(res),
              st |-> [st EXCEPT !.card_mountain = SubSeq(st.card_mountain, 1, n - 1),
                                !.hand[st.active_player] = HandAdd(@, res)]]

play(st, discard) ==
    LET r == remove_from_hand(st.hand[st.active_player], discard.card)
    IN  IF ~r.ok
        THEN [ok |-> FALSE, st |-> st]
        ELSE [ok |-> TRUE,
              st |-> [st EXCEPT !.hand[st.active_player] = r.hand,
                                !.river[st.active_player] = Append(@, discard)]]

(***************************************************************************)
(* Cards::call.  Each arm of the match is one operator returning the       *)
(* boolean result and the state after the arm.                             *)
(***************************************************************************)
RECURSIVE InsertSorted(_, _)
InsertSorted(s, c) ==
    IF s = <<>> THEN <<c>>
    ELSE IF CardLess(c, Head(s)) THEN <<c>> \o s
    ELSE <<Head(s)>> \o InsertSorted(Tail(s), c)

\* hitchhiker.sort_unstable()
RECURSIVE sort_unstable(_)
sort_unstable(s) ==
    IF s = <<>> THEN <<>> ELSE InsertSorted(sort_unstable(Tail(s)), Head(s))

\* for c in hitchhiker { remove_from_hand(hand, c); }
RECURSIVE RemoveEach(_, _)
RemoveEach(h, s) ==
    IF s = <<>> THEN h ELSE RemoveEach(remove_from_hand(h, Head(s)).hand, Tail(s))

AllEqual(s, c) == \A i \in DOMAIN s : s[i] = c

Rejected(st) == [ok |-> FALSE, st |-> st]

\* CaseType::Shun(start): the guard pushes the discard onto the hitchhikers
\* and sorts them; the body removes every element of that list from the hand.
\* As call_shun, but the called card is taken out of the discarder's river.
call_shun_takes_discard(st, case, side, discard, hitchhiker) ==
    LET pushed == sort_unstable(Append(hitchhiker, discard))
        r == st.river[st.active_player]
        taken == IF r # <<>> /\ r[Len(r)].card = discard
                 THEN SubSeq(r, 1, Len(r) - 1) ELSE r
    IN  IF /\ \A i \in DOMAIN hitchhiker : hitchhiker[i] \in DOMAIN st.hand[side]
           /\ Len(pushed) = 3
           /\ CardNext(pushed[1]) = pushed[2]
           /\ CardNext(pushed[2]) = pushed[3]
           /\ CardLess(pushed[1], pushed[3])
           /\ pushed[1] = case.card
        THEN [ok |-> TRUE,
              st |-> [st EXCEPT !.river[st.active_player] = taken,
                                !.hand[side] = RemoveEach(@, pushed),
                                !.open[side] = Append(@, case),
                                !.active_player = side]]
        ELSE Rejected(st)

call_shun(st, case, side, discard, hitchhiker) ==
    LET pushed == sort_unstable(Append(hitchhiker, discard))
    IN  IF /\ \A i \in DOMAIN hitchhiker : hitchhiker[i] \in DOMAIN st.hand[side]
           /\ Len(pushed) = 3
           /\ CardNext(pushed[1]) = pushed[2]
           /\ CardNext(pushed[2]) = pushed[3]
           /\ CardLess(pushed[1], pushed[3])
           /\ pushed[1] = case.card
        THEN [ok |-> TRUE,
              st |-> [st EXCEPT !.hand[side] = RemoveEach(@, pushed),
                                !.open[side] = Append(@, case),
                                !.active_player = side]]
        ELSE Rejected(st)

\* As call_ke, but removing a single copy from the hand.
call_ke_once(st, case, side, discard, hitchhiker) ==
    IF /\ Len(hitchhiker) = 2
       /\ AllEqual(hitchhiker, case.card)
       /\ case.card = discard
       /\ HandGet(st.hand[side], case.card) >= 2
    THEN [ok |-> TRUE,
          st |-> [st EXCEPT !.hand[side] = remove_from_hand(@, case.card).hand,
                            !.open[side] = Append(@, case),
                            !.active_player = side]]
    ELSE Rejected(st)

\* CaseType::Ke(card)
call_ke(st, case, side, discard, hitchhiker) ==
    IF /\ Len(hitchhiker) = 2
       /\ AllEqual(hitchhiker, case.card)
       /\ case.card = discard
       /\ HandGet(st.hand[side], case.card) >= 2
    THEN [ok |-> TRUE,
          st |-> [st EXCEPT !.hand[side] =
                                remove_from_hand(
                                    remove_from_hand(@, case.card).hand, case.card).hand,
                            !.open[side] = Append(@, case),
                            !.active_player = side]]
    ELSE Rejected(st)

\* As call_gang, followed by a draw for the caller.
call_gang_then_draw(st, case, side, discard, hitchhiker) ==
    [ok |-> TRUE,
     st |-> draw([st EXCEPT !.hand[side] = HandRemoveKey(@, case.card),
                            !.open[side] = Append(@, case),
                            !.active_player = side]).st]

\* CaseType::Gang(card) with 3 hitchhikers
call_gang(st, case, side, discard, hitchhiker) ==
    [ok |-> TRUE,
     st |-> [st EXCEPT !.hand[side] = HandRemoveKey(@, case.card),
                       !.open[side] = Append(@, case),
                       !.active_player = side]]

\* The first index of open holding CaseType::Ke(card), 0 when there is none.
FindKe(o, card) ==
    IF \E i \in DOMAIN o : o[i] = Ke(card)
    THEN CHOOSE i \in DOMAIN o : o[i] = Ke(card) /\ \A j \in 1..(i - 1) : o[j] # Ke(card)
    ELSE 0

\* As call_jia_gang, but the hand is changed before open is searched.
call_jia_gang_partial(st, case, side, discard, hitchhiker) ==
    LET i == FindKe(st.open[side], case.card)
        taken == [st EXCEPT !.hand[st.active_player] = HandRemoveKey(@, case.card)]
    IN  IF i # 0
        THEN [ok |-> TRUE, st |-> [taken EXCEPT !.open[side][i] = Gang(case.card)]]
        ELSE [ok |-> FALSE, st |-> taken]

\* As call_jia_gang, but the quad is pushed and the triplet record stays.
call_jia_gang_push(st, case, side, discard, hitchhiker) ==
    LET i == FindKe(st.open[side], case.card)
    IN  IF i # 0
        THEN [ok |-> TRUE,
              st |-> [st EXCEPT !.open[side] = Append(@, Gang(case.card)),
                                !.hand[st.active_player] = HandRemoveKey(@, case.card)]]
        ELSE Rejected(st)

\* CaseType::Gang(card) with 4 hitchhikers
call_jia_gang(st, case, side, discard, hitchhiker) ==
    LET i == FindKe(st.open[side], case.card)
    IN  IF i # 0
        THEN [ok |-> TRUE,
              st |-> [st EXCEPT !.open[side][i] = Gang(case.card),
                                !.hand[st.active_player] = HandRemoveKey(@, case.card)]]
        ELSE Rejected(st)

\* As call_an_gang, but recording the quad as an open one.
call_an_gang_as_gang(st, case, side, discard, hitchhiker) ==
    [ok |-> TRUE,
     st |-> [st EXCEPT !.hand[st.active_player] = HandRemoveKey(@, case.card),
                       !.open[st.active_player] = Append(@, Gang(case.card))]]

\* CaseType::AnGang(card)
call_an_gang(st, case, side, discard, hitchhiker) ==
    [ok |-> TRUE,
     st |-> [st EXCEPT !.hand[st.active_player] = HandRemoveKey(@, case.card),
                       !.open[st.active_player] = Append(@, case)]]

GangGuard(st, case, side, discard, hitchhiker) ==
    /\ Len(hitchhiker) = 3
    /\ AllEqual(hitchhiker, case.card)
    /\ case.card = discard
    /\ HandGet(st.hand[side], case.card) >= 3

JiaGangGuard(st, case, side, discard, hitchhiker) ==
    /\ Len(hitchhiker) = 4
    /\ AllEqual(hitchhiker, case.card)
    /\ case.card = discard
    /\ case.card \in DOMAIN st.hand[st.active_player]
    /\ side = st.active_player

AnGangGuard(st, case, side, discard, hitchhiker) ==
    /\ Len(hitchhiker) = 4
    /\ AllEqual(hitchhiker, case.card)
    /\ case.card = discard
    /\ HandGet(st.hand[st.active_player], case.card) = 4
    /\ side = st.active_player

call(st, case, side, discard, hitchhiker) ==
    CASE case.kind = "Shun" -> call_shun(st, case, side, discard, hitchhiker)
      [] case.kind = "Ke" -> call_ke(st, case, side, discard, hitchhiker)
      [] case.kind = "Gang" /\ GangGuard(st, case, side, discard, hitchhiker) ->
            call_gang(st, case, side, discard, hitchhiker)
      [] case.kind = "Gang" /\ ~GangGuard(st, case, side, discard, hitchhiker)
            /\ JiaGangGuard(st, case, side, discard, hitchhiker) ->
            call_jia_gang(st, case, side, discard, hitchhiker)
      [] case.kind = "AnGang" /\ AnGangGuard(st, case, side, discard, hitchhiker) ->
            call_an_gang(st, case, side, discard, hitchhiker)
      [] OTHER -> Rejected(st)

(***************************************************************************)
(* Cards::check_call: the melds the other seats could call on a discarded  *)
(* card, as a list of <<seat, meld>> pairs.  The sequences of the next     *)
(* seat come first, then the quads and triplets seat by seat.              *)
(***************************************************************************)
Numbered(c) == c[1] \in {WanSuit, TiaoSuit, TongSuit}

\* Iterator::find over the keys of a BTreeMap: the least key in S, if any.
find(S) ==
    IF S = {} THEN None
    ELSE Some(CHOOSE c \in S : \A d \in S : c = d \/ CardLess(c, d))

\* BTreeMap::get_key_value(&c) mapped to the key.
get_key(h, c) == IF c \in DOMAIN h THEN Some(c) ELSE None

lastlast(h, card) ==
    IF Numbered(card) /\ card[2] >= 3
    THEN find({c \in DOMAIN h : CardNext(CardNext(c)) = card})
    ELSE None

last(h, card) ==
    IF Numbered(card) /\ card[2] >= 2
    THEN find({c \in DOMAIN h : CardNext(c) = card})
    ELSE None

next(h, card) ==
    IF Numbered(card) /\ card[2] <= 8 THEN get_key(h, CardNext(card)) ELSE None

nextnext(h, card) ==
    IF Numbered(card) /\ card[2] <= 7
    THEN get_key(h, CardNext(CardNext(card)))
    ELSE None

\* As check_call_shun, but the three tests form an if / else-if chain.
check_call_shun_first(st, card) ==
    LET next_side == FengNext(st.active_player)
        h == st.hand[next_side]
    IN  IF last(h, card) # None /\ lastlast(h, card) # None
        THEN <<<<next_side, Shun(lastlast(h, card)[1])>>>>
        ELSE IF last(h, card) # None /\ next(h, card) # None
        THEN <<<<next_side, Shun(last(h, card)[1])>>>>
        ELSE IF next(h, card) # None /\ nextnext(h, card) # None
        THEN <<<<next_side, Shun(card)>>>>
        ELSE <<>>

\* As check_call_shun, but card.next().next() is looked up whatever the rank.
check_call_shun_wrap(st, card) ==
    LET next_side == FengNext(st.active_player)
        h == st.hand[next_side]
        nn == IF Numbered(card) THEN get_key(h, CardNext(CardNext(card))) ELSE None
    IN  (IF last(h, card) # None /\ lastlast(h, card) # None
         THEN <<<<next_side, Shun(lastlast(h, card)[1])>>>> ELSE <<>>)
        \o (IF last(h, card) # None /\ next(h, card) # None
            THEN <<<<next_side, Shun(last(h, card)[1])>>>> ELSE <<>>)
        \o (IF next(h, card) # None /\ nn # None
            THEN <<<<next_side, Shun(card)>>>> ELSE <<>>)

check_call_shun(st, card) ==
    LET next_side == FengNext(st.active_player)
        h == st.hand[next_side]
    IN  (IF last(h, card) # None /\ lastlast(h, card) # None
         THEN <<<<next_side, Shun(lastlast(h, card)[1])>>>> ELSE <<>>)
        \o (IF last(h, card) # None /\ next(h, card) # None
            THEN <<<<next_side, Shun(last(h, card)[1])>>>> ELSE <<>>)
        \o (IF next(h, card) # None /\ nextnext(h, card) # None
            THEN <<<<next_side, Shun(card)>>>> ELSE <<>>)

\* As check_call_side, but counting the discarded card with those in the hand.
check_call_side_counting_discard(st, side, card) ==
    LET num == HandGet(st.hand[side], card) + 1
    IN  (IF num >= 3 THEN <<<<side, Gang(card)>>>> ELSE <<>>)
        \o (IF num >= 2 THEN <<<<side, Ke(card)>>>> ELSE <<>>)

\* The body of the loop over the three other seats.
check_call_side(st, side, card) ==
    LET num == HandGet(st.hand[side], card)
    IN  (IF num >= 3 THEN <<<<side, Gang(card)>>>> ELSE <<>>)
        \o (IF num >= 2 THEN <<<<side, Ke(card)>>>> ELSE <<>>)

\* As check_call_ke_gang, but the second test is an else-if.
check_call_ke_gang_exclusive(st, card) ==
    LET One(side) ==
            LET num == HandGet(st.hand[side], card)
            IN  IF num >= 3 THEN <<<<side, Gang(card)>>>>
                ELSE IF num >= 2 THEN <<<<side, Ke(card)>>>> ELSE <<>>
        next_side == FengNext(st.active_player)
    IN  One(next_side) \o One(FengNext(next_side)) \o One(FengNext(FengNext(next_side)))

check_call_ke_gang(st, card) ==
    LET next_side == FengNext(st.active_player)
    IN  check_call_side(st, next_side, card)
            \o check_call_side(st, FengNext(next_side), card)
            \o check_call_side(st, FengNext(FengNext(next_side)), card)

check_call(st, card) == check_call_shun(st, card) \o check_call_ke_gang(st, card)

(***************************************************************************)
(* Cards::check_an_gang and Cards::check_jia_gang.                         *)
(***************************************************************************)
\* The keys of a BTreeMap in iteration order.
RECURSIVE SortedKeys(_)
SortedKeys(S) ==
    IF S = {} THEN <<>>
    ELSE LET c == CHOOSE x \in S : \A d \in S : x = d \/ CardLess(x, d)
         IN  <<c>> \o SortedKeys(S \ {c})

keys(h) == SortedKeys(DOMAIN h)

\* As check_an_gang, but testing num >= 3.
check_an_gang_three(st) ==
    LET h == st.hand[st.active_player]
    IN  SelectSeq(keys(h), LAMBDA c : h[c] >= 3)

check_an_gang(st) ==
    LET h == st.hand[st.active_player]
    IN  SelectSeq(keys(h), LAMBDA c : h[c] = 4)

check_jia_gang(st) ==
    LET h == st.hand[st.active_player]
        kept == SelectSeq(st.open[st.active_player],
                          LAMBDA m : m.kind = "Ke" /\ m.card \in DOMAIN h)
    IN  [i \in 1..Len(kept) |-> kept[i].card]

(***************************************************************************)
(* Cards::win.  situation_checkers and completion_checkers are fields the  *)
(* caller fills in; no method writes them, so they are arguments here.  A  *)
(* SituationChecker is a function pointer: the model has four of them,     *)
(* told apart by a tag, and Checks calls the one a tag stands for.         *)
(***************************************************************************)
SituationCheckers == {"holds", "melded", "discarded", "never"}

Checks(f, h, r, o, card) ==
    CASE f = "holds" -> card \in DOMAIN h
      [] f = "melded" -> o # <<>>
      [] f = "discarded" -> r # <<>>
      [] OTHER -> FALSE

Completion(required, forbidden, fan, name) ==
    [required |-> required, forbidden |-> forbidden, fan |-> fan, name |-> name,
     valid |-> TRUE]

\* As win, but a completion is kept as soon as its required situations are met.
win_required_only(st, situation_checkers, completion_checkers, side, last_card) ==
    LET situations ==
            {n \in DOMAIN situation_checkers :
                Checks(situation_checkers[n], st.hand[side], st.river[side],
                       st.open[side], last_card)}
    IN  SelectSeq(completion_checkers,
                  LAMBDA item : \A i \in DOMAIN item.required : item.required[i] \in situations)

win(st, situation_checkers, completion_checkers, side, last_card) ==
    LET situations ==
            {n \in DOMAIN situation_checkers :
                Checks(situation_checkers[n], st.hand[side], st.river[side],
                       st.open[side], last_card)}
    IN  SelectSeq(completion_checkers,
                  LAMBDA item :
                      /\ \A i \in DOMAIN item.required : item.required[i] \in situations
                      /\ ~ \E i \in DOMAIN item.forbidden : item.forbidden[i] \in situations)

(***************************************************************************)
(* Bound of the exploration and the inputs the operations are tried on.    *)
(***************************************************************************)
\* The largest number of tiles drawn, tiles discarded and melds exposed,
\* taken together, in the states explored.
MaxSteps == 2

MountainSize == Len(init) - 4 * HandSize

RECURSIVE SumLen(_, _)
SumLen(f, S) ==
    IF S = {} THEN 0
    ELSE LET s == CHOOSE x \in S : TRUE IN Len(f[s]) + SumLen(f, S \ {s})

Steps(st) ==
    (MountainSize - Len(st.card_mountain))
        + SumLen(st.river, FengType) + SumLen(st.open, FengType)

Family(c) == {c, CardNext(c), CardNext(CardNext(c))}

Hitchhikers(c) ==
    LET n == CardNext(c)
        nn == CardNext(CardNext(c))
    IN  {<<c>>, <<c, c>>, <<c, c, c>>, <<c, c, c, c>>, <<c, c, n>>,
         <<c, n>>, <<c, nn>>, <<n, nn>>, <<nn, n>>}

InputsAt(anchors, discards, supporting) ==
    UNION {
        {[case |-> [kind |-> k, card |-> c], side |-> s, discard |-> d, hitchhiker |-> h] :
            k \in CaseKinds, s \in FengType, d \in discards[c], h \in supporting[c]} :
        c \in anchors}

\* The arguments of call the properties range over.
AnchorCards == {Wan(1), Wan(8), Jian(Bai)}
CallInputs ==
    InputsAt(AnchorCards, [c \in AnchorCards |-> Family(c)],
             [c \in AnchorCards |-> Hitchhikers(c)])

\* The arguments of call and play the state machine is driven with: for each
\* anchor and seat, the well-formed claim of every kind, and one claim with
\* too few supporting tiles.
TriedAnchors == {Wan(1), Jian(Bai)}

TriedShapes(c) ==
    LET n == CardNext(c)
        nn == CardNext(CardNext(c))
    IN  {[case |-> Ke(c), discard |-> c, hitchhiker |-> <<c, c>>],
         [case |-> Ke(c), discard |-> c, hitchhiker |-> <<c>>],
         [case |-> Gang(c), discard |-> c, hitchhiker |-> <<c, c, c>>],
         [case |-> Gang(c), discard |-> c, hitchhiker |-> <<c, c, c, c>>],
         [case |-> AnGang(c), discard |-> c, hitchhiker |-> <<c, c, c, c>>],
         [case |-> Shun(c), discard |-> nn, hitchhiker |-> <<c, n>>],
         [case |-> Shun(c), discard |-> c, hitchhiker |-> <<nn, n>>]}

TriedCalls ==
    UNION {
        {[case |-> t.case, side |-> s, discard |-> t.discard, hitchhiker |-> t.hitchhiker] :
            t \in TriedShapes(c), s \in FengType} :
        c \in TriedAnchors}

PlayCards == {Wan(1), Wan(3), Jian(Bai)}
PlayInputs == {Normal(c) : c \in PlayCards} \cup {Drawing(c) : c \in PlayCards}

(***************************************************************************)
(* The state machine.  result holds the last invocation and what it        *)
(* returned; the arguments are kept for an invocation that succeeded.      *)
(***************************************************************************)
NoArgs == [none |-> TRUE]

\* &mut self: the fields after the operation.
Assign(st) ==
    /\ card_mountain' = st.card_mountain
    /\ hand' = st.hand
    /\ river' = st.river
    /\ open' = st.open
    /\ active_player' = st.active_player

Install(st) ==
    /\ Steps(st) <= MaxSteps
    /\ Assign(st)

Init ==
    \E shuffled \in ShuffleOutcomes :
        LET st == new(shuffled)
        IN  /\ card_mountain = st.card_mountain
            /\ hand = st.hand
            /\ river = st.river
            /\ open = st.open
            /\ active_player = st.active_player
            /\ result = [op |-> "new", ok |-> TRUE, args |-> NoArgs]

Draw ==
    LET r == draw(self)
    IN  /\ Install(r.st)
        /\ result' = [op |-> "draw", ok |-> r.value # None, args |-> [value |-> r.value]]

Play ==
    \E discard \in PlayInputs :
        LET r == play(self, discard)
        IN  /\ Install(r.st)
            /\ result' = [op |-> "play", ok |-> r.ok,
                          args |-> IF r.ok THEN [discard |-> discard] ELSE NoArgs]

Call ==
    \E in \in TriedCalls :
        LET r == call(self, in.case, in.side, in.discard, in.hitchhiker)
        IN  /\ Install(r.st)
            /\ result' = [op |-> "call", ok |-> r.ok,
                          args |-> IF r.ok THEN in ELSE NoArgs]

Next == Draw \/ Play \/ Call

Spec == Init /\ [][Next]_vars

(***************************************************************************)
(* The wall drawn to exhaustion.  Draws are not bounded; plays and calls   *)
(* are tried once at most WallWindow tiles are left in the mountain, up to *)
(* MaxWallMoves discards and melds.                                        *)
(***************************************************************************)
WallWindow == 1
MaxWallMoves == 1

Moves(st) == SumLen(st.river, FengType) + SumLen(st.open, FengType)

DrawWall ==
    LET r == draw(self)
    IN  /\ Assign(r.st)
        /\ result' = [op |-> "draw", ok |-> r.value # None, args |-> [value |-> r.value]]

PlayWall ==
    /\ Len(card_mountain) <= WallWindow
    /\ \E discard \in PlayInputs :
        LET r == play(self, discard)
        IN  /\ Moves(r.st) <= MaxWallMoves
            /\ Assign(r.st)
            /\ result' = [op |-> "play", ok |-> r.ok,
                          args |-> IF r.ok THEN [discard |-> discard] ELSE NoArgs]

CallWall ==
    /\ Len(card_mountain) <= WallWindow
    /\ \E in \in TriedCalls :
        LET r == call(self, in.case, in.side, in.discard, in.hitchhiker)
        IN  /\ Moves(r.st) <= MaxWallMoves
            /\ Assign(r.st)
            /\ result' = [op |-> "call", ok |-> r.ok,
                          args |-> IF r.ok THEN in ELSE NoArgs]

NextWall == DrawWall \/ PlayWall \/ CallWall

SpecWall == Init /\ [][NextWall]_vars

(***************************************************************************)
(* The deal over more shuffle outcomes: every cut of the two decks up to   *)
(* MaxCut cards, followed by at most MaxDealDraws draws.                   *)
(***************************************************************************)
MaxCut == 60
MaxDealDraws == 1

\* The permutation of s that starts k cards further on.
Rotate(s, k) == [i \in 1..Len(s) |-> s[((i - 1 + k) % Len(s)) + 1]]

DealtShuffles == {Rotate(d, k) : d \in ShuffleOutcomes, k \in 0..MaxCut}

InitDeal ==
    \E shuffled \in DealtShuffles :
        LET st == new(shuffled)
        IN  /\ card_mountain = st.card_mountain
            /\ hand = st.hand
            /\ river = st.river
            /\ open = st.open
            /\ active_player = st.active_player
            /\ result = [op |-> "new", ok |-> TRUE, args |-> NoArgs]

DrawDeal ==
    LET r == draw(self)
    IN  /\ MountainSize - Len(r.st.card_mountain) <= MaxDealDraws
        /\ Assign(r.st)
        /\ result' = [op |-> "draw", ok |-> r.value # None, args |-> [value |-> r.value]]

NextDeal == DrawDeal

SpecDeal == InitDeal /\ [][NextDeal]_vars

(***************************************************************************)
(* The queries next to the operations: check_call, check_an_gang,          *)
(* check_jia_gang and win take &self and report their value in result.     *)
(* The operations are explored up to MaxQuerySteps tiles drawn, tiles      *)
(* discarded and melds exposed.                                            *)
(***************************************************************************)
MaxQuerySteps == 1

QueryCards == {Tiao(5), Jian(Bai), Jian(Fa)}

\* Registries: each registers some of the checkers under names; "ghost" is
\* a name no registry holds.
Registries ==
    {[n \in D |-> IF n = "concealed" THEN "never" ELSE n] :
        D \in SUBSET {"holds", "melded", "discarded", "concealed"}}

SampleRules ==
    <<Completion(<<>>, <<>>, 1, "any"),
      Completion(<<"holds">>, <<>>, 2, "pair"),
      Completion(<<"holds", "melded">>, <<"discarded">>, 8, "open"),
      Completion(<<"holds">>, <<"melded", "concealed">>, 24, "closed"),
      Completion(<<"ghost">>, <<>>, 88, "ghost"),
      Completion(<<>>, <<"discarded", "holds">>, 4, "none")>>

Tables ==
    {SubSeq(SampleRules, 1, k) : k \in 0..Len(SampleRules)}
        \cup {SubSeq(SampleRules, 3, 4) \o SubSeq(SampleRules, 3, 3)}

FullRegistry == [n \in {"holds", "melded", "discarded"} |-> n]

InstallQuery(st) ==
    /\ Steps(st) <= MaxQuerySteps
    /\ Assign(st)

DrawQuery ==
    LET r == draw(self)
    IN  /\ InstallQuery(r.st)
        /\ result' = [op |-> "draw", ok |-> r.value # None, args |-> [value |-> r.value]]

PlayQuery ==
    \E discard \in PlayInputs :
        LET r == play(self, discard)
        IN  /\ InstallQuery(r.st)
            /\ result' = [op |-> "play", ok |-> r.ok,
                          args |-> IF r.ok THEN [discard |-> discard] ELSE NoArgs]

CallQuery ==
    \E in \in TriedCalls :
        LET r == call(self, in.case, in.side, in.discard, in.hitchhiker)
        IN  /\ InstallQuery(r.st)
            /\ result' = [op |-> "call", ok |-> r.ok,
                          args |-> IF r.ok THEN in ELSE NoArgs]

CheckCall ==
    \E card \in QueryCards :
        /\ UNCHANGED <<card_mountain, hand, river, open, active_player>>
        /\ result' = [op |-> "check_call", ok |-> TRUE,
                      args |-> [card |-> card, value |-> check_call(self, card)]]

CheckAnGang ==
    /\ UNCHANGED <<card_mountain, hand, river, open, active_player>>
    /\ result' = [op |-> "check_an_gang", ok |-> TRUE,
                  args |-> [value |-> check_an_gang(self)]]

CheckJiaGang ==
    /\ UNCHANGED <<card_mountain, hand, river, open, active_player>>
    /\ result' = [op |-> "check_jia_gang", ok |-> TRUE,
                  args |-> [value |-> check_jia_gang(self)]]

Win ==
    \E side \in FengType :
        /\ UNCHANGED <<card_mountain, hand, river, open, active_player>>
        /\ result' = [op |-> "win", ok |-> TRUE,
                      args |-> [side |-> side, last_card |-> Jian(Bai),
                                value |-> win(self, FullRegistry, SampleRules, side, Jian(Bai))]]

NextQuery ==
    \/ DrawQuery \/ PlayQuery \/ CallQuery
    \/ CheckCall \/ CheckAnGang \/ CheckJiaGang \/ Win

SpecQuery == Init /\ [][NextQuery]_vars

(***************************************************************************)
(* Vocabulary of the properties.                                           *)
(***************************************************************************)
Apply(in) == call(self, in.case, in.side, in.discard, in.hitchhiker)

InputsOf(k) == {in \in CallInputs : in.case.kind = k}
ShunInputs == InputsOf("Shun")
KeInputs == InputsOf("Ke")
GangInputs == InputsOf("Gang")
AnGangInputs == InputsOf("AnGang")
QuadInputs == GangInputs \cup AnGangInputs

\* The hand h with k copies of c taken away, in canonical form.
Take(h, c, k) ==
    [x \in {y \in DOMAIN h : h[y] - (IF y = c THEN k ELSE 0) > 0} |->
        h[x] - (IF x = c THEN k ELSE 0)]

\* The seats other than s keep their hands and exposed lists in st.
OthersKept(st, s) ==
    \A o \in FengType \ {s} : st.hand[o] = hand[o] /\ st.open[o] = open[o]

\* The number of copies of c a meld record stands for.
CaseCount(m, c) ==
    CASE m.kind = "Shun" -> IF c \in Family(m.card) THEN 1 ELSE 0
      [] m.kind = "Ke" -> IF c = m.card THEN 3 ELSE 0
      [] OTHER -> IF c = m.card THEN 4 ELSE 0

RECURSIVE OpenCount(_, _)
OpenCount(o, c) ==
    IF o = <<>> THEN 0 ELSE CaseCount(Head(o), c) + OpenCount(Tail(o), c)

RiverCount(r, c) == Cardinality({i \in DOMAIN r : r[i].card = c})

SeatCount(s, c) ==
    HandGet(hand[s], c) + RiverCount(river[s], c) + OpenCount(open[s], c)

Occurrences(c) ==
    CountIn(card_mountain, c)
        + SeatCount(Dong, c) + SeatCount(Nan, c) + SeatCount(Xi, c) + SeatCount(Bei, c)

Succeeded(op) == result.op = op /\ result.ok

(***************************************************************************)
(* C1.  Conservation: in every reachable state each of the 34 tile values  *)
(* occurs exactly 4 times over the mountain, the four hands, the four      *)
(* rivers and the tiles of the four exposed lists (3 per sequence or       *)
(* triplet, 4 per quad).                                                   *)
(***************************************************************************)
C1_Conservation == \A c \in CardType : Occurrences(c) = Copies

(***************************************************************************)
(* C2.  Commit atomicity: in every reachable state, for every meld, seat,  *)
(* trigger tile and supporting tiles, a call that returns false leaves the *)
(* mountain, the hands, the rivers, the exposed lists and the active seat  *)
(* as they were.                                                           *)
(***************************************************************************)
C2_CommitAtomicity ==
    \A in \in CallInputs :
        LET r == Apply(in) IN ~r.ok => r.st = self

\* A call has just been rejected in a state where an added quad passes the
\* guard of its arm and is then refused for want of an exposed triplet.
C2_Witness ==
    /\ result.op = "call" /\ ~result.ok
    /\ \E in \in GangInputs :
        /\ JiaGangGuard(self, in.case, in.side, in.discard, in.hitchhiker)
        /\ ~Apply(in).ok

(***************************************************************************)
(* C3.  Quad replacement draw, as claimed: every successful quad commit    *)
(* made while the mountain is non-empty leaves the mountain one tile       *)
(* shorter, the removed tile being in the declaring seat's hand.           *)
(***************************************************************************)
C3_QuadDrawsReplacement ==
    \A in \in QuadInputs :
        LET r == Apply(in)
            n == Len(card_mountain)
        IN  (r.ok /\ n > 0) =>
                /\ r.st.card_mountain = SubSeq(card_mountain, 1, n - 1)
                /\ HandGet(r.st.hand[in.side], card_mountain[n]) >= 1

(***************************************************************************)
(* C3, amended.  No quad commit draws: every successful quad commit (open, *)
(* added or concealed) leaves the mountain unchanged and raises no count   *)
(* in any hand.                                                            *)
(***************************************************************************)
C3_QuadDrawsNothing ==
    \A in \in QuadInputs :
        LET r == Apply(in)
        IN  r.ok =>
                /\ r.st.card_mountain = card_mountain
                /\ \A s \in FengType : \A c \in CardType :
                        HandGet(r.st.hand[s], c) <= HandGet(hand[s], c)

\* A quad has just been committed and the mountain still holds tiles.
C3_Witness ==
    /\ Succeeded("call")
    /\ result.args.case.kind \in {"Gang", "AnGang"}
    /\ card_mountain # <<>>

(***************************************************************************)
(* C4.  Sequence commit: a sequence claim is accepted iff the anchor, its  *)
(* successor and the successor of that are exactly the trigger tile plus   *)
(* the two supporting tiles and both supporting tiles are in the           *)
(* claimant's hand; on success the claimant's hand loses exactly one copy  *)
(* of each of the two supporting tiles and nothing else (a held copy of    *)
(* the trigger tile stays), the sequence record is appended to the         *)
(* claimant's exposed list, the claimant becomes the active seat, and the  *)
(* mountain, the rivers and the other seats are unchanged.                 *)
(***************************************************************************)
C4_SequenceCommit ==
    \A in \in ShunInputs :
        LET r == Apply(in)
            s == in.side
            h == in.hitchhiker
        IN  /\ r.ok <=> /\ Len(h) = 2
                        /\ {in.discard, h[1], h[2]} = Family(in.case.card)
                        /\ h[1] \in DOMAIN hand[s] /\ h[2] \in DOMAIN hand[s]
            /\ r.ok =>
                /\ r.st.hand[s] = Take(Take(hand[s], h[1], 1), h[2], 1)
                /\ r.st.open[s] = Append(open[s], in.case)
                /\ r.st.active_player = s
                /\ r.st.card_mountain = card_mountain
                /\ r.st.river = river
                /\ OthersKept(r.st, s)

(***************************************************************************)
(* C5.  Triplet commit: a triplet claim of T by seat s is accepted iff the *)
(* supporting tiles are exactly 2 tiles equal to T, T is the trigger tile  *)
(* and s holds at least 2 copies of T; on success s's count of T drops by  *)
(* exactly 2 (no entry is left at 0), one triplet record of T is appended  *)
(* to s's exposed list, s becomes the active seat, and the mountain, the   *)
(* rivers and the other seats' hands and exposed lists are unchanged.      *)
(***************************************************************************)
C5_TripletCommit ==
    \A in \in KeInputs :
        LET r == Apply(in)
            s == in.side
            T == in.case.card
            h == in.hitchhiker
        IN  /\ r.ok <=> /\ Len(h) = 2
                        /\ h[1] = T /\ h[2] = T
                        /\ in.discard = T
                        /\ HandGet(hand[s], T) >= 2
            /\ r.ok =>
                /\ r.st.hand[s] = Take(hand[s], T, 2)
                /\ HandGet(r.st.hand[s], T) = HandGet(hand[s], T) - 2
                /\ (HandGet(hand[s], T) = 2 => T \notin DOMAIN r.st.hand[s])
                /\ r.st.open[s] = Append(open[s], Ke(T))
                /\ r.st.active_player = s
                /\ r.st.card_mountain = card_mountain
                /\ r.st.river = river
                /\ OthersKept(r.st, s)

\* A triplet has just been committed with the claimant's last two copies.
C5_Witness ==
    /\ Succeeded("call")
    /\ result.args.case.kind = "Ke"
    /\ active_player = result.args.side
    /\ result.args.case.card \notin DOMAIN hand[result.args.side]

(***************************************************************************)
(* C6.  Open quad from discard: a quad claim of T by seat s with 3         *)
(* supporting tiles is accepted iff the 3 tiles equal T, T is the trigger  *)
(* tile and s holds at least 3 copies of T; on success s's count of T      *)
(* drops by exactly 3, one open-quad record of T is appended to s's        *)
(* exposed list and s becomes the active seat.                             *)
(***************************************************************************)
C6_OpenQuadCommit ==
    \A in \in GangInputs :
        LET r == Apply(in)
            s == in.side
            T == in.case.card
            h == in.hitchhiker
        IN  Len(h) = 3 =>
                /\ r.ok <=> /\ AllEqual(h, T)
                            /\ in.discard = T
                            /\ HandGet(hand[s], T) >= 3
                /\ r.ok =>
                    /\ HandGet(r.st.hand[s], T) = HandGet(hand[s], T) - 3
                    /\ r.st.open[s] = Append(open[s], Gang(T))
                    /\ r.st.active_player = s

(***************************************************************************)
(* C7.  Added quad: declaring an added quad of T is accepted iff the       *)
(* declaring seat is the active seat, its exposed list holds a triplet     *)
(* record of T and its hand holds a copy of T; on success exactly one copy *)
(* of T leaves the active hand, exactly one triplet record of T is         *)
(* replaced in place by an open-quad record of T and the active seat is    *)
(* unchanged.                                                              *)
(***************************************************************************)
C7_AddedQuad ==
    \A in \in GangInputs :
        LET r == Apply(in)
            s == in.side
            T == in.case.card
        IN  (in.hitchhiker = <<T, T, T, T>> /\ in.discard = T) =>
                /\ r.ok <=> /\ s = active_player
                            /\ \E i \in DOMAIN open[s] : open[s][i] = Ke(T)
                            /\ T \in DOMAIN hand[s]
                /\ r.ok =>
                    /\ r.st.hand[active_player] = Take(hand[active_player], T, 1)
                    /\ \E i \in DOMAIN open[s] :
                        /\ open[s][i] = Ke(T)
                        /\ r.st.open[s] = [open[s] EXCEPT ![i] = Gang(T)]
                    /\ r.st.active_player = active_player

(***************************************************************************)
(* C8.  Concealed quad: declaring a concealed quad of T is accepted iff    *)
(* the declaring seat is the active seat and its hand holds exactly 4      *)
(* copies of T; on success the active hand no longer holds T and keeps its *)
(* other counts, one concealed-quad record of T, distinct from an          *)
(* open-quad record, is appended to the active seat's exposed list, and    *)
(* the active seat, the rivers and the other seats' hands and exposed      *)
(* lists are unchanged.                                                    *)
(***************************************************************************)
C8_ConcealedQuad ==
    \A in \in AnGangInputs :
        LET r == Apply(in)
            a == active_player
            T == in.case.card
        IN  /\ (in.hitchhiker = <<T, T, T, T>> /\ in.discard = T) =>
                    (r.ok <=> (in.side = a /\ HandGet(hand[a], T) = 4))
            /\ r.ok =>
                /\ T \notin DOMAIN r.st.hand[a]
                /\ \A c \in CardType \ {T} :
                        /\ c \in DOMAIN r.st.hand[a] <=> c \in DOMAIN hand[a]
                        /\ HandGet(r.st.hand[a], c) = HandGet(hand[a], c)
                /\ r.st.open[a] = Append(open[a], AnGang(T))
                /\ AnGang(T) # Gang(T)
                /\ r.st.active_player = a
                /\ r.st.river = river
                /\ OthersKept(r.st, a)

\* A concealed quad has just been committed by the active seat.
C8_Witness ==
    /\ Succeeded("call")
    /\ result.args.case.kind = "AnGang"
    /\ result.args.side = active_player
    /\ open[active_player] # <<>>
    /\ open[active_player][Len(open[active_player])] = AnGang(result.args.case.card)

(***************************************************************************)
(* C9.  Discard: in every reachable state and for every tile T and tag, if *)
(* the active hand holds c >= 1 copies of T then play succeeds, T's count  *)
(* becomes c - 1 (the entry is removed when c = 1), exactly one record     *)
(* carrying T and the tag is appended to the active seat's river, and the  *)
(* active seat, the mountain, the exposed lists and the other seats' hands *)
(* and rivers are unchanged; otherwise play fails and changes nothing.     *)
(***************************************************************************)
C9_Discard ==
    \A T \in CardType : \A discard \in {Normal(T), Drawing(T)} :
        LET r == play(self, discard)
            a == active_player
            c == HandGet(hand[a], T)
        IN  IF c >= 1
            THEN /\ r.ok
                 /\ HandGet(r.st.hand[a], T) = c - 1
                 /\ (c = 1 => T \notin DOMAIN r.st.hand[a])
                 /\ r.st.hand[a] = Take(hand[a], T, 1)
                 /\ r.st.river[a] = Append(river[a], discard)
                 /\ Len(r.st.river[a]) = Len(river[a]) + 1
                 /\ r.st.active_player = a
                 /\ r.st.card_mountain = card_mountain
                 /\ r.st.open = open
                 /\ \A o \in FengType \ {a} :
                        r.st.hand[o] = hand[o] /\ r.st.river[o] = river[o]
            ELSE ~r.ok /\ r.st = self

\* The active seat has just discarded its only copy of a tile.
C9_Witness ==
    /\ Succeeded("play")
    /\ river[active_player] # <<>>
    /\ river[active_player][Len(river[active_player])] = result.args.discard
    /\ result.args.discard.card \notin DOMAIN hand[active_player]

(***************************************************************************)
(* C10.  Draw: when the mountain is non-empty, draw removes exactly its    *)
(* last tile, raises the active seat's count of that tile by exactly 1,    *)
(* returns that tile, and leaves the rest of the mountain in order, the    *)
(* other three hands, the rivers, the exposed lists and the active seat    *)
(* unchanged.                                                              *)
(***************************************************************************)
C10_Draw ==
    card_mountain # <<>> =>
        LET n == Len(card_mountain)
            top == card_mountain[n]
            a == active_player
            r == draw(self)
        IN  /\ r.value = Some(top)
            /\ r.st.card_mountain = SubSeq(card_mountain, 1, n - 1)
            /\ HandGet(r.st.hand[a], top) = HandGet(hand[a], top) + 1
            /\ \A c \in CardType \ {top} :
                    /\ c \in DOMAIN r.st.hand[a] <=> c \in DOMAIN hand[a]
                    /\ HandGet(r.st.hand[a], c) = HandGet(hand[a], c)
            /\ \A o \in FengType \ {a} : r.st.hand[o] = hand[o]
            /\ r.st.river = river
            /\ r.st.open = open
            /\ r.st.active_player = a

\* A tile has just been drawn and sits in the active hand.
C10_Witness ==
    /\ Succeeded("draw")
    /\ Len(card_mountain) = MountainSize - 1
    /\ result.args.value # None
    /\ result.args.value[1] \in DOMAIN hand[active_player]

(***************************************************************************)
(* C11.  Wall exhaustion is a stable terminal condition: draw on an empty  *)
(* mountain returns None and changes nothing; the mountain never grows,    *)
(* its length changes only by a successful draw, which shortens it by      *)
(* exactly 1; once the mountain is empty every later draw returns None;    *)
(* and the mountain of a dealt game never holds more than 84 tiles, so at  *)
(* most 84 draws succeed.                                                  *)
(***************************************************************************)
C11_EmptyDraw ==
    /\ Len(card_mountain) <= MountainSize
    /\ MountainSize = 84
    /\ card_mountain = <<>> => (draw(self).value = None /\ draw(self).st = self)
    /\ (result.op = "draw" /\ ~result.ok) => card_mountain = <<>>

C11_WallStep ==
    /\ Len(card_mountain') <= Len(card_mountain)
    /\ Len(card_mountain') # Len(card_mountain) =>
            /\ result'.op = "draw" /\ result'.ok
            /\ Len(card_mountain') = Len(card_mountain) - 1
    /\ (result'.op = "draw" /\ result'.ok) =>
            Len(card_mountain') = Len(card_mountain) - 1
    /\ (result'.op = "draw" /\ ~result'.ok) =>
            UNCHANGED <<card_mountain, hand, river, open, active_player>>
    /\ card_mountain = <<>> =>
            /\ card_mountain' = <<>>
            /\ result'.op = "draw" => ~result'.ok

\* C11: the empty-mountain facts hold in every state and the mountain facts on every step.
C11_WallExhaustion == [](C11_EmptyDraw) /\ [][C11_WallStep]_vars

\* The wall has been drawn empty and a further draw has returned None.
C11_Witness ==
    /\ card_mountain = <<>>
    /\ result.op = "draw" /\ ~result.ok
    /\ \E s \in FengType : \E c \in DOMAIN hand[s] : hand[s][c] = Copies

\* The number of tiles in hand h.
RECURSIVE HandTotalOver(_, _)
HandTotalOver(h, S) ==
    IF S = {} THEN 0
    ELSE LET c == CHOOSE x \in S : TRUE IN h[c] + HandTotalOver(h, S \ {c})

HandTotal(h) == HandTotalOver(h, DOMAIN h)

(***************************************************************************)
(* C12.  Deal invariant: right after new, for every shuffle outcome, each  *)
(* of the four hands holds exactly 13 tiles, the mountain holds exactly 84 *)
(* tiles, all rivers and exposed lists are empty, and the active seat is   *)
(* Dong, who has not drawn.                                                *)
(***************************************************************************)
C12_Deal ==
    result.op = "new" =>
        /\ \A s \in FengType :
            /\ HandTotal(hand[s]) = 13
            /\ river[s] = <<>>
            /\ open[s] = <<>>
        /\ Len(card_mountain) = 84
        /\ active_player = Dong

\* A freshly dealt game from a cut deck in which a hand holds a tile more than once.
C12_Witness ==
    /\ result.op = "new"
    /\ card_mountain # new(init).card_mountain
    /\ card_mountain # new(ArrangedDeck).card_mountain
    /\ \E s \in FengType : \E c \in DOMAIN hand[s] : hand[s][c] > 1

\* The melds of kind k in a result of check_call, and the seats they are for.
EntriesOf(res, k) == {i \in DOMAIN res : res[i][2].kind = k}

(***************************************************************************)
(* C13.  Sequence candidates of check_call: in every state, for every tile *)
(* T of rank r, the sequence entries are all for the seat after the active *)
(* seat and exist only for a numbered T; with H that seat's hand they are  *)
(* exactly: the run starting at r-2 iff r >= 3 and H holds r-1 and r-2 of  *)
(* T's suit, the run starting at r-1 iff 2 <= r <= 8 and H holds r-1 and   *)
(* r+1, and the run starting at r iff r <= 7 and H holds r+1 and r+2; each *)
(* satisfied sub-case is returned once and nothing else is.                *)
(***************************************************************************)
C13_SequenceCandidates ==
    \A T \in CardType :
        LET res == check_call(self, T)
            shuns == EntriesOf(res, "Shun")
            follower == (active_player % 4) + 1
            H == DOMAIN hand[follower]
            r == T[2]
            Holds(k) == <<T[1], r + k>> \in H
            Run(k) == Shun(<<T[1], r + k>>)
            expected ==
                IF T[1] \in {WanSuit, TiaoSuit, TongSuit}
                THEN {Run(-2) : x \in {1} \cap {y \in {1} : r >= 3 /\ Holds(-1) /\ Holds(-2)}}
                     \cup {Run(-1) : x \in {1} \cap {y \in {1} : r >= 2 /\ r <= 8 /\ Holds(-1) /\ Holds(1)}}
                     \cup {Run(0) : x \in {1} \cap {y \in {1} : r <= 7 /\ Holds(1) /\ Holds(2)}}
                ELSE {}
        IN  /\ \A i \in shuns : res[i][1] = follower
            /\ {res[i][2] : i \in shuns} = expected
            /\ Cardinality(shuns) = Cardinality(expected)

\* check_call has answered with all three runs around one discarded tile.
C13_Witness ==
    /\ result.op = "check_call"
    /\ Cardinality(EntriesOf(result.args.value, "Shun")) = 3
    /\ result.args.value = check_call(self, result.args.card)

(***************************************************************************)
(* C14.  Triplet and quad candidates of check_call: in every state, for    *)
(* every tile T and seat s, the result holds a triplet entry for s iff s   *)
(* is not the active seat and holds at least 2 copies of T, and a quad     *)
(* entry for s iff s is not the active seat and holds at least 3 copies;   *)
(* the entries of different seats stand in one result, each once, and no   *)
(* entry of any kind is for the active seat.                               *)
(***************************************************************************)
C14_TripletQuadCandidates ==
    \A T \in CardType :
        LET res == check_call(self, T)
            For(k, s) == {i \in DOMAIN res : res[i] = <<s, [kind |-> k, card |-> T]>>}
        IN  /\ \A s \in FengType :
                /\ For("Ke", s) # {} <=> (s # active_player /\ HandGet(hand[s], T) >= 2)
                /\ For("Gang", s) # {} <=> (s # active_player /\ HandGet(hand[s], T) >= 3)
                /\ Cardinality(For("Ke", s)) <= 1
                /\ Cardinality(For("Gang", s)) <= 1
            /\ \A i \in EntriesOf(res, "Ke") \cup EntriesOf(res, "Gang") : res[i][2].card = T
            /\ EntriesOf(res, "AnGang") = {}
            /\ \A i \in DOMAIN res : res[i][1] # active_player

\* check_call has answered with triplet entries for two seats, while some seat
\* holds three copies of a tile and so gets a quad and a triplet entry for it.
C14_Witness ==
    /\ result.op = "check_call"
    /\ result.args.value = check_call(self, result.args.card)
    /\ \E s, t \in FengType :
        /\ s # t
        /\ <<s, Ke(result.args.card)>> \in {result.args.value[i] : i \in DOMAIN result.args.value}
        /\ <<t, Ke(result.args.card)>> \in {result.args.value[i] : i \in DOMAIN result.args.value}
    /\ \E s \in FengType : \E T \in CardType :
        /\ HandGet(hand[s], T) >= 3
        /\ EntriesOf(check_call(self, T), "Gang") # {}
        /\ EntriesOf(check_call(self, T), "Ke") # {}

\* Sequence claims on three tiles of one suit that wrap past 9 (8-9-1 and
\* 9-1-2): every anchor among the three, every seat, every one of the three as
\* the trigger tile, the other two as hitchhikers in either order.
WrapInputs ==
    UNION {
        {[case |-> Shun(<<suit, a>>), side |-> s, discard |-> <<suit, d>>,
          hitchhiker |-> <<<<suit, h[1]>>, <<suit, h[2]>>>>] :
            a \in W, s \in FengType,
            h \in {w \in (W \ {d}) \X (W \ {d}) : w[1] # w[2]}} :
        suit \in {WanSuit, TiaoSuit, TongSuit}, W \in {{8, 9, 1}, {9, 1, 2}}, d \in {8, 9, 1, 2}}

(***************************************************************************)
(* C15.  No wraparound sequences: in every state check_call returns, for   *)
(* no discarded tile, a sequence whose starting tile has rank 8 or 9; call *)
(* rejects every sequence claim whose three tiles are 8-9-1 or 9-1-2 of    *)
(* one suit; and no exposed list holds a sequence record starting at rank  *)
(* 8 or 9.                                                                 *)
(***************************************************************************)
C15_NoWraparound ==
    /\ \A T \in CardType :
        LET res == check_call(self, T)
        IN  \A i \in EntriesOf(res, "Shun") :
                res[i][2].card[1] \in {WanSuit, TiaoSuit, TongSuit} => res[i][2].card[2] <= 7
    /\ \A in \in WrapInputs : ~Apply(in).ok
    /\ \A s \in FengType : \A i \in DOMAIN open[s] :
        (open[s][i].kind = "Shun" /\ open[s][i].card[1] \in {WanSuit, TiaoSuit, TongSuit})
            => open[s][i].card[2] \notin {8, 9}

\* A call has been rejected in a state where a seat holds the 8 and 9 a wrapping
\* claim on a 1 names, and where the seat after the active one holds the 9 and
\* the 1 of a suit, so that a discarded 8 has both "next" tiles in that hand.
C15_Witness ==
    /\ result.op = "call" /\ ~result.ok
    /\ \E in \in WrapInputs :
        /\ in.discard[2] = 1
        /\ \A i \in DOMAIN in.hitchhiker : in.hitchhiker[i] \in DOMAIN hand[in.side]
    /\ \E suit \in {WanSuit, TiaoSuit, TongSuit} :
        /\ <<suit, 9>> \in DOMAIN hand[(active_player % 4) + 1]
        /\ <<suit, 1>> \in DOMAIN hand[(active_player % 4) + 1]
    /\ \E s \in FengType : \E i \in DOMAIN open[s] : open[s][i].kind = "Shun"

\* The elements of a list of names.
Names(l) == {l[i] : i \in DOMAIN l}

(***************************************************************************)
(* C16.  Completion filter: in every state, for every seat, trigger tile,  *)
(* registry of situations and table of completions, win returns exactly    *)
(* the completions R of the table, in order and as configured (fan         *)
(* included), whose required names are all in S and whose forbidden names  *)
(* are all outside S, where S is the set of registered names whose checker *)
(* is true on the seat's hand, river, exposed melds and the trigger tile;  *)
(* a completion requiring a name outside S is never returned.              *)
(***************************************************************************)
C16_CompletionFilter ==
    \A side \in FengType : \A last_card \in QueryCards :
    \A registry \in Registries : \A table \in Tables :
        LET res == win(self, registry, table, side, last_card)
            S == {n \in DOMAIN registry :
                    Checks(registry[n], hand[side], river[side], open[side], last_card)}
            Met(R) == Names(R.required) \subseteq S /\ Names(R.forbidden) \cap S = {}
            met == {i \in DOMAIN table : Met(table[i])}
        IN  /\ Len(res) = Cardinality(met)
            /\ \A i \in DOMAIN res :
                /\ Met(res[i])
                /\ \E j \in met : table[j] = res[i]
                /\ Cardinality({k \in 1..i : res[k] = res[i]})
                        <= Cardinality({j \in met : table[j] = res[i]})
            /\ \A i, j \in DOMAIN res :
                i < j => \E a, b \in met : a < b /\ table[a] = res[i] /\ table[b] = res[j]
            /\ \A i \in DOMAIN res : Names(res[i].required) \cap ({"ghost"} \cup (DOMAIN registry \ S)) = {}

\* win has answered with some completions of the table and left others out, for
\* a seat that has a river or an exposed list.
C16_Witness ==
    /\ result.op = "win"
    /\ result.args.value = win(self, FullRegistry, SampleRules, result.args.side, Jian(Bai))
    /\ Len(result.args.value) >= 2
    /\ \E i \in DOMAIN result.args.value : result.args.value[i].forbidden # <<>>
    /\ river[result.args.side] # <<>> \/ open[result.args.side] # <<>>

\* The state with everything but the active seat's hand and exposed list wiped.
OnlyActive ==
    [card_mountain |-> <<>>,
     hand |-> [s \in FengType |-> IF s = active_player THEN hand[s] ELSE EmptyHand],
     river |-> [s \in FengType |-> <<>>],
     open |-> [s \in FengType |-> IF s = active_player THEN open[s] ELSE <<>>],
     active_player |-> active_player]

(***************************************************************************)
(* C17.  Quad eligibility helpers: in every state check_an_gang returns    *)
(* exactly the tiles whose count in the active seat's hand is 4, and       *)
(* check_jia_gang returns exactly the tiles T such that the active seat's  *)
(* exposed list holds a triplet record of T and the active hand holds at   *)
(* least one T; both depend on nothing but the active seat's hand and      *)
(* exposed list.                                                           *)
(***************************************************************************)
C17_QuadHelpers ==
    LET an == check_an_gang(self)
        jia == check_jia_gang(self)
        h == hand[active_player]
        o == open[active_player]
    IN  /\ {an[i] : i \in DOMAIN an} = {T \in CardType : HandGet(h, T) = 4}
        /\ Len(an) = Cardinality({T \in CardType : HandGet(h, T) = 4})
        /\ {jia[i] : i \in DOMAIN jia} =
                {T \in CardType :
                    /\ \E i \in DOMAIN o : o[i] = [kind |-> "Ke", card |-> T]
                    /\ HandGet(h, T) >= 1}
        /\ check_an_gang(OnlyActive) = an
        /\ check_jia_gang(OnlyActive) = jia

\* check_jia_gang has answered with a tile of an exposed triplet, for an active
\* seat that holds three copies of another tile, not four.
C17_Witness ==
    /\ result.op = "check_jia_gang"
    /\ result.args.value = check_jia_gang(self)
    /\ result.args.value # <<>>
    /\ check_an_gang(self) = <<>>
    /\ \E T \in CardType : HandGet(hand[active_player], T) = 3

(***************************************************************************)
(* C18.  Sequences are of a numbered suit in call too: no exposed list of  *)
(* a reachable state holds a sequence record anchored on an honor tile (a  *)
(* dragon or a wind), every sequence record being three tiles of one of    *)
(* Wan, Tiao and Tong.                                                     *)
(***************************************************************************)
C18_NumberedSequencesOnly ==
    \A s \in FengType : \A i \in DOMAIN open[s] :
        open[s][i].kind = "Shun" => open[s][i].card[1] \in {WanSuit, TiaoSuit, TongSuit}

(***************************************************************************)
(* C19.  Hand canonical form: in every reachable state every entry stored  *)
(* in each of the four hands has a count from 1 to 4: no hand stores a     *)
(* zero count and no hand holds more than 4 copies of a tile.              *)
(***************************************************************************)
C19_HandCanonical ==
    \A s \in FengType : \A c \in DOMAIN hand[s] :
        hand[s][c] >= 1 /\ hand[s][c] <= 4

\* Near the end of the wall the active seat has drawn several tiles up to four
\* copies and has just discarded its only copy of another tile.
C19_Witness ==
    /\ Len(card_mountain) <= 1
    /\ Succeeded("play")
    /\ result.args.discard.card \notin DOMAIN hand[active_player]
    /\ Cardinality({c \in DOMAIN hand[active_player] : hand[active_player][c] = 4}) >= 2

(***************************************************************************)
(* C20.  Rivers are append-only: across every single operation each seat's *)
(* river after the operation has the river before it as a prefix; a river  *)
(* changes only by a successful play, which appends exactly one record,    *)
(* the discard, to the river of the seat that was active; a call leaves    *)
(* every river as it was, the called discard included.                     *)
(***************************************************************************)
C20_RiverStep ==
    /\ \A s \in FengType :
        /\ Len(river[s]) <= Len(river'[s])
        /\ SubSeq(river'[s], 1, Len(river[s])) = river[s]
    /\ river' # river =>
        /\ result'.op = "play" /\ result'.ok
        /\ river' = [river EXCEPT ![active_player] = Append(@, result'.args.discard)]
    /\ result'.op \in {"call", "draw"} => river' = river

\* C20: every step of the operations is such a step.
C20_RiversAppendOnly == [][C20_RiverStep]_vars

\* A call has succeeded on a card that lies last in a river.
C20_Witness ==
    /\ Succeeded("call")
    /\ \E s \in FengType :
        /\ river[s] # <<>>
        /\ river[s][Len(river[s])].card = result.args.discard

(***************************************************************************)
(* C21.  Exposed lists are append-only except for the triplet upgrade:     *)
(* across every single operation each seat's exposed list stays as it is,  *)
(* or gains exactly one record at its end, the meld of a successful        *)
(* sequence, triplet, open-quad (3 hitchhikers) or concealed-quad call by  *)
(* that seat, or keeps its length with exactly one triplet record of T     *)
(* replaced at its index by an open-quad record of T, by a successful quad *)
(* call with 4 hitchhikers; draw and play change no exposed list.          *)
(***************************************************************************)
C21_OpenStep ==
    /\ \A s \in FengType :
        \/ open'[s] = open[s]
        \/ /\ result'.op = "call" /\ result'.ok /\ result'.args.side = s
           /\ open'[s] = Append(open[s], result'.args.case)
           /\ result'.args.case.kind \in {"Shun", "Ke", "Gang", "AnGang"}
           /\ result'.args.case.kind = "Gang" => Len(result'.args.hitchhiker) = 3
        \/ /\ result'.op = "call" /\ result'.ok /\ result'.args.side = s
           /\ result'.args.case.kind = "Gang" /\ Len(result'.args.hitchhiker) = 4
           /\ Len(open'[s]) = Len(open[s])
           /\ \E i \in DOMAIN open[s] :
                /\ open[s][i] = [kind |-> "Ke", card |-> result'.args.case.card]
                /\ open'[s][i] = [kind |-> "Gang", card |-> result'.args.case.card]
                /\ \A j \in DOMAIN open[s] \ {i} : open'[s][j] = open[s][j]
    /\ result'.op \in {"draw", "play"} => open' = open

\* C21: every step of the operations is such a step.
C21_OpenAppendOnly == [][C21_OpenStep]_vars

\* A quad call with 4 hitchhikers has upgraded an exposed triplet in place.
C21_Witness ==
    /\ Succeeded("call")
    /\ result.args.case.kind = "Gang"
    /\ Len(result.args.hitchhiker) = 4
    /\ open[result.args.side] = <<[kind |-> "Gang", card |-> result.args.case.card]>>

\* next() applied n times to the tile t.
RECURSIVE NextTimes(_, _)
NextTimes(t, n) == IF n = 0 THEN t ELSE NextTimes(CardNext(t), n - 1)

\* The tiles of t's family: its numbered suit, the dragons or the winds.
FamilyOf(t) == {u \in CardType : u[1] = t[1]}

\* The number of tiles of each kind of family.
PeriodOf(t) ==
    CASE t[1] \in {WanSuit, TiaoSuit, TongSuit} -> 9
      [] t[1] = JianSuit -> 3
      [] OTHER -> 4

\* The tile values met in the mountain and the hands.
TilesDealt ==
    {card_mountain[i] : i \in DOMAIN card_mountain} \cup UNION {DOMAIN hand[s] : s \in FengType}

(***************************************************************************)
(* C22.  Cyclic successor: next is a permutation of the 34 tile values     *)
(* that keeps every tile in its family (the same numbered suit, the        *)
(* dragons, the winds); 9 applications to a numbered tile, 3 to a dragon   *)
(* and 4 to a wind give the tile back and no fewer do; next(t) is the      *)
(* least tile above t in the total order, except at the greatest tile of a *)
(* family, where it is the least tile of that family.                      *)
(***************************************************************************)
C22_CyclicSuccessor ==
    /\ Cardinality(CardType) = 34
    /\ {CardNext(t) : t \in CardType} = CardType
    /\ \A t, u \in CardType : CardNext(t) = CardNext(u) => t = u
    /\ \A t \in CardType \cup TilesDealt :
        /\ CardNext(t) \in FamilyOf(t)
        /\ Cardinality(FamilyOf(t)) = PeriodOf(t)
        /\ NextTimes(t, PeriodOf(t)) = t
        /\ \A k \in 1..(PeriodOf(t) - 1) : NextTimes(t, k) # t
        /\ LET above == {u \in CardType : CardLess(t, u)}
               greatest == \A u \in FamilyOf(t) : ~CardLess(t, u)
           IN  IF greatest
               THEN \A u \in FamilyOf(t) : u = CardNext(t) \/ CardLess(CardNext(t), u)
               ELSE /\ CardNext(t) \in above
                    /\ \A u \in above : u = CardNext(t) \/ CardLess(CardNext(t), u)

\* call has accepted a sequence: the three tiles of the call are the anchor, its
\* successor and the successor of that, and the caller, now active, is followed
\* by the seat next() names, Bei by Dong.
C22_Witness ==
    /\ Succeeded("call")
    /\ result.args.case.kind = "Shun"
    /\ {result.args.discard} \cup {result.args.hitchhiker[i] : i \in DOMAIN result.args.hitchhiker}
            = {NextTimes(result.args.case.card, k) : k \in 0..2}
    /\ active_player = Bei
    /\ FengNext(active_player) = Dong

(***************************************************************************)
(* C23.  The eligibility queries are sound for call: in every state, every *)
(* entry of check_call(T) is accepted by call on that state with T as the  *)
(* discard: a sequence with the two other tiles of the run as hitchhikers, *)
(* in either order, a triplet with two copies of T, a quad with three      *)
(* copies of T; every tile of check_an_gang is accepted as a concealed     *)
(* quad of the active seat and every tile of check_jia_gang as a quad of   *)
(* the active seat with four hitchhikers.                                  *)
(***************************************************************************)
C23_QueriesSound ==
    /\ \A T \in CardType :
        LET res == check_call(self, T)
        IN  \A i \in DOMAIN res :
                LET s == res[i][1]
                    m == res[i][2]
                    others == Family(m.card) \ {T}
                IN  CASE m.kind = "Shun" ->
                            \A a, b \in others :
                                a # b => call(self, m, s, T, <<a, b>>).ok
                      [] m.kind = "Ke" -> call(self, m, s, T, <<T, T>>).ok
                      [] m.kind = "Gang" -> call(self, m, s, T, <<T, T, T>>).ok
                      [] OTHER -> FALSE
    /\ LET an == check_an_gang(self)
       IN  \A i \in DOMAIN an :
               call(self, AnGang(an[i]), active_player, an[i], Repeat(an[i], 4)).ok
    /\ LET jia == check_jia_gang(self)
       IN  \A i \in DOMAIN jia :
               call(self, Gang(jia[i]), active_player, jia[i], Repeat(jia[i], 4)).ok

\* After a triplet call the active seat has a candidate for check_jia_gang, and
\* check_call lists a sequence, a triplet and a quad for discards of other tiles.
C23_Witness ==
    /\ Succeeded("call")
    /\ result.args.case.kind = "Ke"
    /\ check_jia_gang(self) # <<>>
    /\ \E T \in CardType : EntriesOf(check_call(self, T), "Shun") # {}
    /\ \E T \in CardType :
        /\ EntriesOf(check_call(self, T), "Ke") # {}
        /\ EntriesOf(check_call(self, T), "Gang") # {}

(***************************************************************************)
(* C24.  call accepts only what check_call lists: on every step on which a *)
(* sequence, triplet or quad call with 3 hitchhikers by seat s on the      *)
(* discard T succeeds, <<s, that meld>> is an entry of check_call(T) on    *)
(* the state before the call; so s is not the seat that was active, and    *)
(* for a sequence s is the seat after it.                                  *)
(***************************************************************************)
C24_Step ==
    (/\ result'.op = "call" /\ result'.ok
     /\ \/ result'.args.case.kind \in {"Shun", "Ke"}
        \/ result'.args.case.kind = "Gang" /\ Len(result'.args.hitchhiker) = 3)
    => LET res == check_call(self, result'.args.discard)
       IN  /\ <<result'.args.side, result'.args.case>> \in {res[i] : i \in DOMAIN res}
           /\ result'.args.side # active_player
           /\ result'.args.case.kind = "Shun" => result'.args.side = FengNext(active_player)

\* C24: every step of the operations is such a step.
C24_OnlyListedClaims == [][C24_Step]_vars

====
